---- MODULE Spec2Model ----
(***************************************************************************)
(* Model of app/src/main/jni/native-camera2-jni.cpp: the seven static      *)
(* handle slots, the two JNI entry points startPreview and stopPreview,    *)
(* and the helpers openCamera and closeCamera.                             *)
(*                                                                         *)
(* A handle is a record [kind, id]; id is the number of the startPreview   *)
(* call that created it (every start creates at most one handle of each    *)
(* kind).  The platform heap is the pair live/freed plus the references    *)
(* the platform calls establish between handles.  Every platform call an   *)
(* entry point makes is appended to calls, with the state of its           *)
(* arguments at the moment of the call.                                    *)
(***************************************************************************)
EXTENDS Integers, Sequences, FiniteSets

\* Number of startPreview calls explored.
MaxStarts == 2

\* Largest camera count the enumeration returns.
MaxCameras == 1

\* Number of startPreview calls explored when one thread runs the handlers
\* step by step and the callbacks fire in between.
MaxStepStarts == 1

\* Number of startPreview calls explored when two threads run the handlers
\* step by step.
MaxThreadStarts == 2

VARIABLES
    theNativeWindow,                \* line 29
    cameraDevice,                   \* line 30
    captureRequest,                 \* line 31
    cameraOutputTarget,             \* line 32
    sessionOutput,                  \* line 33
    captureSessionOutputContainer,  \* line 34
    captureSession,                 \* line 35
    live,        \* handles allocated by the platform and not yet released
    freed,       \* handles released (a capture session: ended)
    refs,        \* <<a, b>>: handle a was built on, or holds, handle b
    repeating,   \* capture sessions with an active repeating request
    calls,       \* platform calls made by the most recent entry-point call
    lastOp,      \* "none", "start" or "stop": the most recent entry point
    prevOp,      \* the entry point before it
    lastStart,   \* summary of the most recent startPreview call
    nStarts,     \* number of startPreview calls so far
    pc,          \* per thread: the handler it is in and its next step
    loc,         \* per thread: the locals of the handler it is in
    cbLog,       \* the message the platform callbacks logged last
    interleaved, \* a handler was entered while another was in progress
    bad          \* misuses of released handles seen so far

slots == <<theNativeWindow, cameraDevice, captureRequest, cameraOutputTarget,
           sessionOutput, captureSessionOutputContainer, captureSession>>

vars == <<theNativeWindow, cameraDevice, captureRequest, cameraOutputTarget,
          sessionOutput, captureSessionOutputContainer, captureSession,
          live, freed, refs, repeating, calls, lastOp, prevOp, lastStart,
          nStarts, pc, loc, cbLog, interleaved, bad>>

\* The variables only the step-by-step specifications change.
stepVars == <<pc, loc, cbLog, interleaved, bad>>

NULL == [kind |-> "null", id |-> 0]

H(kind, n) == [kind |-> kind, id |-> n]

\* The program state as one record, threaded through the steps of a handler.
State ==
    [theNativeWindow |-> theNativeWindow,
     cameraDevice |-> cameraDevice,
     captureRequest |-> captureRequest,
     cameraOutputTarget |-> cameraOutputTarget,
     sessionOutput |-> sessionOutput,
     captureSessionOutputContainer |-> captureSessionOutputContainer,
     captureSession |-> captureSession,
     live |-> live, freed |-> freed, refs |-> refs,
     repeating |-> repeating, calls |-> calls]

\* State of a handle value at the moment it is handed to the platform.
Status(s, h) ==
    IF h = NULL THEN "null"
    ELSE IF h \in s.live THEN "live"
    ELSE IF h \in s.freed THEN "freed"
    ELSE "never"

\* Unreleased handles that reference h.
HeldBy(s, h) == {x \in s.live : <<x, h>> \in s.refs}

\* One entry of the call log.
Entry(s, fn, a, a2, res, num) ==
    [fn |-> fn, arg |-> a, st |-> Status(s, a), arg2 |-> a2,
     st2 |-> Status(s, a2), res |-> res, num |-> num, held |-> HeldBy(s, a)]

Log(s, e) == [s EXCEPT !.calls = Append(@, e)]

Alloc(s, h) == [s EXCEPT !.live = @ \cup {h}]

Release(s, hs) == [s EXCEPT !.live = @ \ hs, !.freed = @ \cup hs,
                            !.repeating = @ \ hs]

(***************************************************************************)
(* openCamera, lines 69-129.  An output parameter is written by the        *)
(* platform only when the call succeeds; on failure the slot keeps the     *)
(* value it had.                                                           *)
(***************************************************************************)

\* line 76: cameraManager = ACameraManager_create()
ManagerCreate(s, mgr) ==
    Log(Alloc(s, mgr), Entry(s, "ACameraManager_create", NULL, NULL, mgr, 0))

\* line 78: ACameraManager_getCameraIdList(cameraManager, &cameraIdList);
\* ids is NULL when the call fails.
GetCameraIdList(s, mgr, ids, num) ==
    LET e == Entry(s, "ACameraManager_getCameraIdList", mgr, NULL, ids, num)
    IN  IF ids = NULL THEN Log(s, e) ELSE Log(Alloc(s, ids), e)

\* Mutant: the camera count is compared with 0 instead of 1.
MutNoCameraDetected(numCameras) == numCameras < 0

\* line 85: if (cameraIdList->numCameras < 1)
NoCameraDetected(numCameras) == numCameras < 1

\* lines 97-98: ACameraManager_getCameraCharacteristics(.., &cameraMetadata);
\* meta is NULL when the call fails.
GetCameraCharacteristics(s, mgr, meta) ==
    LET e == Entry(s, "ACameraManager_getCameraCharacteristics", mgr, NULL,
                   meta, 0)
    IN  IF meta = NULL THEN Log(s, e) ELSE Log(Alloc(s, meta), e)

\* lines 109-110: ACameraManager_openCamera(.., &cameraDevice)
OpenDevice(s, mgr, n, ok) ==
    LET d == H("dev", n)
    IN  IF ok
        THEN Log([Alloc(s, d) EXCEPT !.cameraDevice = d],
                 Entry(s, "ACameraManager_openCamera", mgr, NULL, d, 0))
        ELSE Log(s, Entry(s, "ACameraManager_openCamera", mgr, NULL, NULL, 0))

\* lines 118-119: ACameraDevice_createCaptureRequest(cameraDevice, templateId,
\* &captureRequest); the platform rejects an empty device.
CreateCaptureRequest(s, n, ok) ==
    LET r == H("req", n)
        good == ok /\ Status(s, s.cameraDevice) = "live"
        e == Entry(s, "ACameraDevice_createCaptureRequest", s.cameraDevice,
                   NULL, IF good THEN r ELSE NULL, 0)
    IN  IF good
        THEN Log([Alloc(s, r) EXCEPT !.captureRequest = r], e)
        ELSE Log(s, e)

\* line 126: ACameraMetadata_free(cameraMetadata)
MetadataFree(s, meta) ==
    Log(IF meta = NULL THEN s ELSE Release(s, {meta}),
        Entry(s, "ACameraMetadata_free", meta, NULL, NULL, 0))

\* line 127: ACameraManager_deleteCameraIdList(cameraIdList)
DeleteCameraIdList(s, ids) ==
    Log(Release(s, {ids}),
        Entry(s, "ACameraManager_deleteCameraIdList", ids, NULL, NULL, 0))

\* line 128: ACameraManager_delete(cameraManager)
ManagerDelete(s, mgr) ==
    Log(Release(s, {mgr}),
        Entry(s, "ACameraManager_delete", mgr, NULL, NULL, 0))

\* Mutant: openCamera returns when the device cannot be opened.
MutOpenCameraReturnsOnOpenFailure(s, n, f) ==
    LET cameraManager == H("mgr", n)
        cameraIdList == IF f.enumOk THEN H("ids", n) ELSE NULL
        cameraMetadata == IF f.charOk THEN H("meta", n) ELSE NULL
        s1 == ManagerCreate(s, cameraManager)
        s2 == GetCameraIdList(s1, cameraManager, cameraIdList,
                              IF f.enumOk THEN f.numCameras ELSE 0)
        s3 == GetCameraCharacteristics(s2, cameraManager, cameraMetadata)
        s4 == OpenDevice(s3, cameraManager, n, f.openOk)
        s5 == CreateCaptureRequest(s4, n, f.reqOk)
        s6 == MetadataFree(s5, cameraMetadata)
        s7 == DeleteCameraIdList(s6, cameraIdList)
        s8 == ManagerDelete(s7, cameraManager)
    IN  IF ~f.enumOk THEN s2
        ELSE IF NoCameraDetected(f.numCameras) THEN s2
        ELSE IF ~f.openOk THEN s4
        ELSE s8

\* f: the outcomes of the platform calls of this startPreview call.
openCamera(s, n, f) ==
    LET cameraManager == H("mgr", n)
        cameraIdList == IF f.enumOk THEN H("ids", n) ELSE NULL
        cameraMetadata == IF f.charOk THEN H("meta", n) ELSE NULL
        s1 == ManagerCreate(s, cameraManager)
        s2 == GetCameraIdList(s1, cameraManager, cameraIdList,
                              IF f.enumOk THEN f.numCameras ELSE 0)
        s3 == GetCameraCharacteristics(s2, cameraManager, cameraMetadata)
        s4 == OpenDevice(s3, cameraManager, n, f.openOk)
        s5 == CreateCaptureRequest(s4, n, f.reqOk)
        s6 == MetadataFree(s5, cameraMetadata)
        s7 == DeleteCameraIdList(s6, cameraIdList)
        s8 == ManagerDelete(s7, cameraManager)
    IN  IF ~f.enumOk THEN s2                           \* lines 79-83
        ELSE IF NoCameraDetected(f.numCameras) THEN s2 \* lines 85-89
        ELSE s8

(***************************************************************************)
(* startPreview, lines 173-206.                                            *)
(***************************************************************************)

\* line 177: theNativeWindow = ANativeWindow_fromSurface(env, surface);
\* the result is NULL when the surface is not a valid surface.
WindowFromSurface(s, n, ok) ==
    LET w == IF ok THEN H("win", n) ELSE NULL
        e == Entry(s, "ANativeWindow_fromSurface", NULL, NULL, w, 0)
    IN  Log([(IF ok THEN Alloc(s, w) ELSE s) EXCEPT !.theNativeWindow = w], e)

\* line 184: ACameraOutputTarget_create(theNativeWindow, &cameraOutputTarget);
\* the platform rejects an empty window.
OutputTargetCreate(s, n) ==
    LET t == H("tgt", n)
        good == s.theNativeWindow # NULL
        e == Entry(s, "ACameraOutputTarget_create", s.theNativeWindow, NULL,
                   IF good THEN t ELSE NULL, 0)
    IN  IF good
        THEN Log([Alloc(s, t) EXCEPT
                     !.cameraOutputTarget = t,
                     !.refs = @ \cup {<<t, s.theNativeWindow>>}], e)
        ELSE Log(s, e)

\* line 187: ACaptureRequest_addTarget(captureRequest, cameraOutputTarget)
AddTarget(s) ==
    LET good == s.captureRequest # NULL /\ s.cameraOutputTarget # NULL
        e == Entry(s, "ACaptureRequest_addTarget", s.captureRequest,
                   s.cameraOutputTarget, NULL, 0)
    IN  IF good
        THEN Log([s EXCEPT !.refs = @ \cup
                      {<<s.captureRequest, s.cameraOutputTarget>>}], e)
        ELSE Log(s, e)

\* line 190: ACaptureSessionOutput_create(theNativeWindow, &sessionOutput)
SessionOutputCreate(s, n) ==
    LET o == H("out", n)
        good == s.theNativeWindow # NULL
        e == Entry(s, "ACaptureSessionOutput_create", s.theNativeWindow, NULL,
                   IF good THEN o ELSE NULL, 0)
    IN  IF good
        THEN Log([Alloc(s, o) EXCEPT
                     !.sessionOutput = o,
                     !.refs = @ \cup {<<o, s.theNativeWindow>>}], e)
        ELSE Log(s, e)

\* line 193: ACaptureSessionOutputContainer_create(&captureSessionOutputContainer)
ContainerCreate(s, n) ==
    LET c == H("cont", n)
    IN  Log([Alloc(s, c) EXCEPT !.captureSessionOutputContainer = c],
            Entry(s, "ACaptureSessionOutputContainer_create", NULL, NULL, c, 0))

\* line 194: ACaptureSessionOutputContainer_add(captureSessionOutputContainer,
\* sessionOutput)
ContainerAdd(s) ==
    LET good == s.captureSessionOutputContainer # NULL /\ s.sessionOutput # NULL
        e == Entry(s, "ACaptureSessionOutputContainer_add",
                   s.captureSessionOutputContainer, s.sessionOutput, NULL, 0)
    IN  IF good
        THEN Log([s EXCEPT !.refs = @ \cup
                      {<<s.captureSessionOutputContainer, s.sessionOutput>>}], e)
        ELSE Log(s, e)

\* Capture sessions of device d that have not ended.
SessionsOf(s, d) == {x \in s.live : x.kind = "ses" /\ <<x, d>> \in s.refs}

\* lines 200-201: ACameraDevice_createCaptureSession(cameraDevice,
\* captureSessionOutputContainer, .., &captureSession); the platform rejects
\* an empty device, and a new session of a device ends the device's earlier one.
CreateCaptureSession(s, n, ok) ==
    LET x == H("ses", n)
        good == ok /\ Status(s, s.cameraDevice) = "live"
                   /\ s.captureSessionOutputContainer # NULL
        e == Entry(s, "ACameraDevice_createCaptureSession", s.cameraDevice,
                   s.captureSessionOutputContainer, IF good THEN x ELSE NULL, 0)
    IN  IF good
        THEN Log([Alloc(Release(s, SessionsOf(s, s.cameraDevice)), x) EXCEPT
                     !.captureSession = x,
                     !.refs = @ \cup {<<x, s.cameraDevice>>,
                                      <<x, s.captureSessionOutputContainer>>}], e)
        ELSE Log(s, e)

\* line 205: ACameraCaptureSession_setRepeatingRequest(captureSession, NULL, 1,
\* &captureRequest, NULL); it takes effect on a session that has not ended,
\* given a request.
SetRepeatingRequest(s) ==
    LET good == Status(s, s.captureSession) = "live" /\ s.captureRequest # NULL
        e == Entry(s, "ACameraCaptureSession_setRepeatingRequest",
                   s.captureSession, s.captureRequest,
                   IF good THEN s.captureSession ELSE NULL, 0)
    IN  IF good
        THEN Log([s EXCEPT !.repeating = @ \cup {s.captureSession}], e)
        ELSE Log(s, e)

\* lines 184-205: the session assembly that follows openCamera.
AssembleSession(s, n, f) ==
    LET s1 == OutputTargetCreate(s, n)
        s2 == AddTarget(s1)
        s3 == SessionOutputCreate(s2, n)
        s4 == ContainerCreate(s3, n)
        s5 == ContainerAdd(s4)
        s6 == CreateCaptureSession(s5, n, f.sessOk)
    IN  SetRepeatingRequest(s6)

\* Mutant: startPreview returns when openCamera found no camera to open.
MutStartPreviewReturnsOnOpenerFailure(s, n, f) ==
    IF ~f.enumOk \/ NoCameraDetected(f.numCameras)
    THEN openCamera(WindowFromSurface(s, n, f.surfaceOk), n, f)
    ELSE AssembleSession(openCamera(WindowFromSurface(s, n, f.surfaceOk), n, f),
                         n, f)

startPreview(s, n, f) ==
    AssembleSession(openCamera(WindowFromSurface(s, n, f.surfaceOk), n, f), n, f)

(***************************************************************************)
(* closeCamera, lines 131-171, and stopPreview, lines 208-217.             *)
(***************************************************************************)

\* Mutant: the request is freed and its slot is not emptied.
MutFreeCaptureRequestKeepsSlot(s) ==
    IF s.captureRequest # NULL
    THEN Log(Release(s, {s.captureRequest}),
             Entry(s, "ACaptureRequest_free", s.captureRequest, NULL, NULL, 0))
    ELSE s

\* lines 135-139
FreeCaptureRequest(s) ==
    IF s.captureRequest # NULL
    THEN Log([Release(s, {s.captureRequest}) EXCEPT !.captureRequest = NULL],
             Entry(s, "ACaptureRequest_free", s.captureRequest, NULL, NULL, 0))
    ELSE s

\* lines 141-145
FreeOutputTarget(s) ==
    IF s.cameraOutputTarget # NULL
    THEN Log([Release(s, {s.cameraOutputTarget}) EXCEPT
                 !.cameraOutputTarget = NULL],
             Entry(s, "ACameraOutputTarget_free", s.cameraOutputTarget, NULL,
                   NULL, 0))
    ELSE s

\* Mutant: the device is closed and its slot is not emptied.
MutCloseDeviceKeepsSlot(s) ==
    IF s.cameraDevice # NULL
    THEN LET ended == {x \in s.live : x.kind = "ses" /\ <<x, s.cameraDevice>> \in s.refs}
             e == Entry(s, "ACameraDevice_close", s.cameraDevice, NULL, NULL, 0)
         IN  Log(Release(s, {s.cameraDevice} \cup ended),
                 [e EXCEPT !.held = @ \ ended])
    ELSE s

\* lines 147-156: closing the device ends its capture sessions.  The entry's
\* held field leaves out the sessions the close itself ends.
CloseDevice(s) ==
    IF s.cameraDevice # NULL
    THEN LET ended == SessionsOf(s, s.cameraDevice)
             e == Entry(s, "ACameraDevice_close", s.cameraDevice, NULL, NULL, 0)
         IN  Log([Release(s, {s.cameraDevice} \cup ended) EXCEPT
                     !.cameraDevice = NULL],
                 [e EXCEPT !.held = @ \ ended])
    ELSE s

\* lines 158-162
FreeSessionOutput(s) ==
    IF s.sessionOutput # NULL
    THEN Log([Release(s, {s.sessionOutput}) EXCEPT !.sessionOutput = NULL],
             Entry(s, "ACaptureSessionOutput_free", s.sessionOutput, NULL,
                   NULL, 0))
    ELSE s

\* lines 164-168
FreeContainer(s) ==
    IF s.captureSessionOutputContainer # NULL
    THEN Log([Release(s, {s.captureSessionOutputContainer}) EXCEPT
                 !.captureSessionOutputContainer = NULL],
             Entry(s, "ACaptureSessionOutputContainer_free",
                   s.captureSessionOutputContainer, NULL, NULL, 0))
    ELSE s

closeCamera(s) ==
    FreeContainer(FreeSessionOutput(CloseDevice(FreeOutputTarget(
        FreeCaptureRequest(s)))))

\* Mutant: the window is released and its slot is not emptied.
MutReleaseWindowKeepsSlot(s) ==
    IF s.theNativeWindow # NULL
    THEN Log(Release(s, {s.theNativeWindow}),
             Entry(s, "ANativeWindow_release", s.theNativeWindow, NULL, NULL, 0))
    ELSE s

\* lines 212-216
ReleaseWindow(s) ==
    IF s.theNativeWindow # NULL
    THEN Log([Release(s, {s.theNativeWindow}) EXCEPT !.theNativeWindow = NULL],
             Entry(s, "ANativeWindow_release", s.theNativeWindow, NULL, NULL, 0))
    ELSE s

stopPreview(s) == ReleaseWindow(closeCamera(s))

(***************************************************************************)
(* The state machine: the two entry points, called one at a time.          *)
(***************************************************************************)

\* The outcomes of the platform calls of one startPreview call.  An outcome
\* the call never consults (openCamera returned before reaching it) is fixed,
\* so that each run of the handler is drawn once.
Outcomes ==
    {f \in [surfaceOk : BOOLEAN, enumOk : BOOLEAN, numCameras : 0..MaxCameras,
            charOk : BOOLEAN, openOk : BOOLEAN, reqOk : BOOLEAN,
            sessOk : BOOLEAN] :
        /\ ~f.enumOk => f.numCameras = 0
        /\ (~f.enumOk \/ f.numCameras < 1) =>
               f.charOk /\ f.openOk /\ f.reqOk}

\* The threads that call the entry points.
Threads == {1, 2}

Idle == [op |-> "idle", k |-> 0]

\* The locals of a thread that is in no handler.
NoLocals ==
    [n |-> 0, pend |-> 0,
     f |-> [surfaceOk |-> TRUE, enumOk |-> TRUE, numCameras |-> 0,
            charOk |-> TRUE, openOk |-> TRUE, reqOk |-> TRUE, sessOk |-> TRUE]]

\* Every static slot is empty.
AllSlotsEmpty ==
    /\ theNativeWindow = NULL
    /\ cameraDevice = NULL
    /\ captureRequest = NULL
    /\ cameraOutputTarget = NULL
    /\ sessionOutput = NULL
    /\ captureSessionOutputContainer = NULL
    /\ captureSession = NULL

\* Writes the record a handler ends with back to the variables.
Commit(s) ==
    /\ theNativeWindow' = s.theNativeWindow
    /\ cameraDevice' = s.cameraDevice
    /\ captureRequest' = s.captureRequest
    /\ cameraOutputTarget' = s.cameraOutputTarget
    /\ sessionOutput' = s.sessionOutput
    /\ captureSessionOutputContainer' = s.captureSessionOutputContainer
    /\ captureSession' = s.captureSession
    /\ live' = s.live
    /\ freed' = s.freed
    /\ refs' = s.refs
    /\ repeating' = s.repeating
    /\ calls' = s.calls

Init ==
    /\ theNativeWindow = NULL
    /\ cameraDevice = NULL
    /\ captureRequest = NULL
    /\ cameraOutputTarget = NULL
    /\ sessionOutput = NULL
    /\ captureSessionOutputContainer = NULL
    /\ captureSession = NULL
    /\ live = {}
    /\ freed = {}
    /\ refs = {}
    /\ repeating = {}
    /\ calls = <<>>
    /\ lastOp = "none"
    /\ prevOp = "none"
    /\ lastStart = [noCamera |-> FALSE, fromIdle |-> FALSE]
    /\ nStarts = 0
    /\ pc = [t \in Threads |-> Idle]
    /\ loc = [t \in Threads |-> NoLocals]
    /\ cbLog = "none"
    /\ interleaved = FALSE
    /\ bad = {}

StartPreview ==
    /\ nStarts < MaxStarts
    /\ \E f \in Outcomes :
          /\ Commit(startPreview([State EXCEPT !.calls = <<>>], nStarts + 1, f))
          /\ lastStart' = [noCamera |-> f.enumOk /\ f.numCameras < 1,
                           fromIdle |-> AllSlotsEmpty]
    /\ nStarts' = nStarts + 1
    /\ prevOp' = lastOp
    /\ lastOp' = "start"
    /\ UNCHANGED stepVars

StopPreview ==
    /\ Commit(stopPreview([State EXCEPT !.calls = <<>>]))
    /\ prevOp' = lastOp
    /\ lastOp' = "stop"
    /\ UNCHANGED <<lastStart, nStarts>>
    /\ UNCHANGED stepVars

Next == StartPreview \/ StopPreview

Spec == Init /\ [][Next]_vars

(***************************************************************************)
(* Vocabulary of the properties.                                           *)
(***************************************************************************)

\* The release and close calls of stopPreview.
ReleaseFns ==
    {"ACaptureRequest_free", "ACameraOutputTarget_free", "ACameraDevice_close",
     "ACaptureSessionOutput_free", "ACaptureSessionOutputContainer_free",
     "ANativeWindow_release"}

\* The kinds of handle stopPreview releases.
ManagedKinds == {"win", "dev", "req", "tgt", "out", "cont"}

\* The six slots stopPreview empties (all but captureSession).
ManagedSlotsEmpty ==
    /\ theNativeWindow = NULL
    /\ cameraDevice = NULL
    /\ captureRequest = NULL
    /\ cameraOutputTarget = NULL
    /\ sessionOutput = NULL
    /\ captureSessionOutputContainer = NULL

SlotValues ==
    {theNativeWindow, cameraDevice, captureRequest, cameraOutputTarget,
     sessionOutput, captureSessionOutputContainer, captureSession}

\* The names of the calls of the most recent entry point, in order.
CallFns == [i \in DOMAIN calls |-> calls[i].fn]

\* Position of the call of fn in calls, 0 when there is none.
Idx(fn) ==
    IF \E i \in DOMAIN calls : calls[i].fn = fn
    THEN CHOOSE i \in DOMAIN calls : calls[i].fn = fn
    ELSE 0

\* When both calls were made, a came before b.
Before(a, b) == (Idx(a) # 0 /\ Idx(b) # 0) => Idx(a) < Idx(b)

OpenerFull ==
    <<"ACameraManager_create", "ACameraManager_getCameraIdList",
      "ACameraManager_getCameraCharacteristics", "ACameraManager_openCamera",
      "ACameraDevice_createCaptureRequest", "ACameraMetadata_free",
      "ACameraManager_deleteCameraIdList", "ACameraManager_delete">>

OpenerCut == <<"ACameraManager_create", "ACameraManager_getCameraIdList">>

Assembly ==
    <<"ACameraOutputTarget_create", "ACaptureRequest_addTarget",
      "ACaptureSessionOutput_create", "ACaptureSessionOutputContainer_create",
      "ACaptureSessionOutputContainer_add",
      "ACameraDevice_createCaptureSession",
      "ACameraCaptureSession_setRepeatingRequest">>

\* Every slot holds a live handle and the session in the slot is repeating.
Previewing ==
    /\ \A h \in SlotValues : h \in live
    /\ captureSession \in repeating

\* Every platform call of the most recent startPreview that creates a handle
\* returned one, and a camera was found.
StartSucceeded ==
    /\ CallFns = <<"ANativeWindow_fromSurface">> \o OpenerFull \o Assembly
    /\ \A i \in DOMAIN calls :
          calls[i].fn \in {"ANativeWindow_fromSurface",
                           "ACameraManager_getCameraCharacteristics",
                           "ACameraManager_openCamera",
                           "ACameraDevice_createCaptureRequest",
                           "ACameraOutputTarget_create",
                           "ACaptureSessionOutput_create",
                           "ACameraDevice_createCaptureSession"}
              => calls[i].res # NULL

\* stopPreview was called right after a startPreview that found no camera.
StoppedAfterNoCamera ==
    lastOp = "stop" /\ prevOp = "start" /\ lastStart.noCamera

(***************************************************************************)
(* The handlers step by step.  Nothing in the file synchronises the static *)
(* slots (lines 29-35), so a thread can be pre-empted between any two      *)
(* platform calls.  A step runs up to and including one platform call:     *)
(* in startPreview each of the sixteen calls ends a step; in stopPreview   *)
(* a step ends with the release of a handle, and the assignment of NULL    *)
(* that follows the release opens the thread's next step.                  *)
(***************************************************************************)

\* Step k of startPreview (openCamera inlined), for the start numbered n
\* with outcomes f.
StartStep(s, k, n, f) ==
    LET cameraManager == H("mgr", n)
        cameraIdList == IF f.enumOk THEN H("ids", n) ELSE NULL
        cameraMetadata == IF f.charOk THEN H("meta", n) ELSE NULL
    IN  CASE k = 1 -> WindowFromSurface(s, n, f.surfaceOk)
          [] k = 2 -> ManagerCreate(s, cameraManager)
          [] k = 3 -> GetCameraIdList(s, cameraManager, cameraIdList,
                                      IF f.enumOk THEN f.numCameras ELSE 0)
          [] k = 4 -> GetCameraCharacteristics(s, cameraManager, cameraMetadata)
          [] k = 5 -> OpenDevice(s, cameraManager, n, f.openOk)
          [] k = 6 -> CreateCaptureRequest(s, n, f.reqOk)
          [] k = 7 -> MetadataFree(s, cameraMetadata)
          [] k = 8 -> DeleteCameraIdList(s, cameraIdList)
          [] k = 9 -> ManagerDelete(s, cameraManager)
          [] k = 10 -> OutputTargetCreate(s, n)
          [] k = 11 -> AddTarget(s)
          [] k = 12 -> SessionOutputCreate(s, n)
          [] k = 13 -> ContainerCreate(s, n)
          [] k = 14 -> ContainerAdd(s)
          [] k = 15 -> CreateCaptureSession(s, n, f.sessOk)
          [] OTHER -> SetRepeatingRequest(s)

\* The step after step k of startPreview; 0 when the handler returns.  The
\* early returns of openCamera (lines 82, 88) lead to line 181.
StartNext(k, f) ==
    IF k = 3 /\ (~f.enumOk \/ NoCameraDetected(f.numCameras)) THEN 10
    ELSE IF k = 16 THEN 0
    ELSE k + 1

\* The slot that step k of stopPreview tests.
StopSlot(s, k) ==
    CASE k = 1 -> s.captureRequest
      [] k = 2 -> s.cameraOutputTarget
      [] k = 3 -> s.cameraDevice
      [] k = 4 -> s.sessionOutput
      [] k = 5 -> s.captureSessionOutputContainer
      [] OTHER -> s.theNativeWindow

\* Step k of stopPreview up to its platform call: the slot is tested and its
\* handle released, the slot itself is not yet written.
StopCall(s, k) ==
    CASE k = 1 -> [FreeCaptureRequest(s) EXCEPT
                      !.captureRequest = s.captureRequest]
      [] k = 2 -> [FreeOutputTarget(s) EXCEPT
                      !.cameraOutputTarget = s.cameraOutputTarget]
      [] k = 3 -> [CloseDevice(s) EXCEPT !.cameraDevice = s.cameraDevice]
      [] k = 4 -> [FreeSessionOutput(s) EXCEPT
                      !.sessionOutput = s.sessionOutput]
      [] k = 5 -> [FreeContainer(s) EXCEPT
                      !.captureSessionOutputContainer =
                          s.captureSessionOutputContainer]
      [] OTHER -> [ReleaseWindow(s) EXCEPT
                      !.theNativeWindow = s.theNativeWindow]

\* The assignment of NULL that follows the release of step k (0: none).
StopClear(s, k) ==
    CASE k = 0 -> s
      [] k = 1 -> [s EXCEPT !.captureRequest = NULL]
      [] k = 2 -> [s EXCEPT !.cameraOutputTarget = NULL]
      [] k = 3 -> [s EXCEPT !.cameraDevice = NULL]
      [] k = 4 -> [s EXCEPT !.sessionOutput = NULL]
      [] k = 5 -> [s EXCEPT !.captureSessionOutputContainer = NULL]
      [] OTHER -> [s EXCEPT !.theNativeWindow = NULL]

\* Every platform call that releases its argument.
AllReleaseFns ==
    ReleaseFns \cup {"ACameraMetadata_free",
                     "ACameraManager_deleteCameraIdList",
                     "ACameraManager_delete"}

\* The misuses of released handles among the calls es.
Misuse(es) ==
    {m \in {"double_release", "use_after_release"} :
        \E i \in DOMAIN es :
            IF es[i].fn \in AllReleaseFns
            THEN m = "double_release" /\ es[i].st = "freed"
            ELSE m = "use_after_release"
                 /\ (es[i].st = "freed" \/ es[i].st2 = "freed")}

\* Writes the record a step ends with back to the variables and records
\* the misuses among the calls of the step.
CommitStep(s) ==
    /\ Commit([s EXCEPT !.calls = <<>>])
    /\ bad' = bad \cup Misuse(s.calls)

\* The outcomes explored when two threads interleave: the camera count and
\* the session creation vary, every other platform call succeeds.
ThreadOutcomes ==
    {f \in Outcomes :
        f.surfaceOk /\ f.enumOk /\ f.charOk /\ f.openOk /\ f.reqOk}

\* The first slot from step k of stopPreview on that holds a handle; 7 when
\* there is none and the handler returns.
StopNext(s, k) ==
    IF \E j \in k..6 : StopSlot(s, j) # NULL
    THEN CHOOSE j \in k..6 :
            /\ StopSlot(s, j) # NULL
            /\ \A i \in k..(j - 1) : StopSlot(s, i) = NULL
    ELSE 7

\* Thread t runs startPreview from step k up to and including its next
\* platform call.
RunStart(t, k, n, f) ==
    /\ CommitStep(StartStep([State EXCEPT !.calls = <<>>], k, n, f))
    /\ LET j == StartNext(k, f)
       IN  /\ pc' = [pc EXCEPT ![t] =
                        IF j = 0 THEN Idle ELSE [op |-> "start", k |-> j]]
           /\ loc' = [loc EXCEPT ![t] =
                         IF j = 0 THEN NoLocals
                         ELSE [n |-> n, pend |-> 0, f |-> f]]

\* Thread t runs stopPreview from step k: it completes the assignment of
\* NULL its last release left pending (pend), passes the slots that are
\* empty, and releases the handle of the first slot that is not; with no
\* such slot left the handler returns.
RunStop(t, k, pend) ==
    LET s0 == StopClear([State EXCEPT !.calls = <<>>], pend)
        j == StopNext(s0, k)
    IN  IF j <= 6
        THEN /\ CommitStep(StopCall(s0, j))
             /\ pc' = [pc EXCEPT ![t] = [op |-> "stop", k |-> j + 1]]
             /\ loc' = [loc EXCEPT ![t] = [NoLocals EXCEPT !.pend = j]]
        ELSE /\ CommitStep(s0)
             /\ pc' = [pc EXCEPT ![t] = Idle]
             /\ loc' = [loc EXCEPT ![t] = NoLocals]

\* Thread t enters startPreview with outcomes drawn from outs and makes its
\* first platform call; at most max calls of startPreview are explored.
BeginStart(t, max, outs) ==
    /\ pc[t] = Idle
    /\ nStarts < max
    /\ \E f \in outs : RunStart(t, 1, nStarts + 1, f)
    /\ nStarts' = nStarts + 1
    /\ interleaved' = (interleaved \/ \E u \in Threads \ {t} : pc[u] # Idle)
    /\ UNCHANGED <<lastOp, prevOp, lastStart, cbLog>>

\* Thread t enters stopPreview and runs it up to its first platform call.
BeginStop(t) ==
    /\ pc[t] = Idle
    /\ RunStop(t, 1, 0)
    /\ interleaved' = (interleaved \/ \E u \in Threads \ {t} : pc[u] # Idle)
    /\ UNCHANGED <<lastOp, prevOp, lastStart, nStarts, cbLog>>

\* Thread t makes the next platform call of its startPreview.
StepStart(t) ==
    /\ pc[t].op = "start"
    /\ RunStart(t, pc[t].k, loc[t].n, loc[t].f)
    /\ UNCHANGED <<lastOp, prevOp, lastStart, nStarts, cbLog, interleaved>>

\* Thread t goes on with its stopPreview, up to its next platform call.
StepStop(t) ==
    /\ pc[t].op = "stop"
    /\ RunStop(t, pc[t].k, loc[t].pend)
    /\ UNCHANGED <<lastOp, prevOp, lastStart, nStarts, cbLog, interleaved>>

(***************************************************************************)
(* The platform callbacks, lines 40-58.  The platform fires them on its    *)
(* own threads: the device callbacks for a device that was opened with     *)
(* deviceStateCallbacks (lines 105-110), the session callbacks for a       *)
(* session created with captureSessionStateCallbacks (lines 196-201).      *)
(***************************************************************************)

\* What a callback leaves alone: everything but the log.
CallbackFrame ==
    UNCHANGED <<slots, live, freed, refs, repeating, calls, lastOp, prevOp,
                lastStart, nStarts, pc, loc, interleaved, bad>>

DeviceOpened == \E h \in live \cup freed : h.kind = "dev"

SessionCreated == \E h \in live \cup freed : h.kind = "ses"

\* lines 40-43
camera_device_on_disconnected ==
    /\ DeviceOpened
    /\ cbLog' = "Camera is diconnected"
    /\ CallbackFrame

\* Mutant: the error callback tears the camera down.
MutCameraDeviceOnErrorCloses ==
    /\ DeviceOpened
    /\ cbLog' = "Error on Camera"
    /\ Commit(closeCamera(State))
    /\ UNCHANGED <<lastOp, prevOp, lastStart, nStarts, pc, loc, interleaved,
                   bad>>

\* lines 45-48
camera_device_on_error ==
    /\ DeviceOpened
    /\ cbLog' = "Error on Camera"
    /\ CallbackFrame

\* lines 50-53
capture_session_on_ready ==
    /\ SessionCreated
    /\ cbLog' = "Session is ready"
    /\ CallbackFrame

\* lines 55-58
capture_session_on_active ==
    /\ SessionCreated
    /\ cbLog' = "Session is activated"
    /\ CallbackFrame

\* One caller thread running the handlers step by step, with the callbacks
\* firing at any point.
NextCb ==
    \/ BeginStart(1, MaxStepStarts, Outcomes)
    \/ BeginStop(1)
    \/ StepStart(1)
    \/ StepStop(1)
    \/ camera_device_on_disconnected
    \/ camera_device_on_error
    \/ capture_session_on_ready
    \/ capture_session_on_active

SpecCb == Init /\ [][NextCb]_vars

\* Two caller threads running the handlers step by step, interleaved:
\* thread 1 calls startPreview and stopPreview, thread 2 calls stopPreview,
\* so a stopPreview runs against a startPreview or another stopPreview.
NextThreads ==
    \/ BeginStart(1, MaxThreadStarts, ThreadOutcomes)
    \/ StepStart(1)
    \/ \E t \in Threads :
          \/ BeginStop(t)
          \/ StepStop(t)

SpecThreads == Init /\ [][NextThreads]_vars

(***************************************************************************)
(* The claims.                                                             *)
(***************************************************************************)

\* C1: after any stop() returns, every static handle slot, the capture
\* session slot included, is empty.
C1_AllSlotsEmptyAfterStop == lastOp = "stop" => AllSlotsEmpty

\* C2: stop() hands a platform release or close call only handles that are
\* allocated and not yet released, and releases no handle twice.
C2_StopReleasesOnlyLiveHandles ==
    lastOp = "stop" =>
        /\ \A i \in DOMAIN calls :
              calls[i].fn \in ReleaseFns /\ calls[i].st = "live"
        /\ \A i, j \in DOMAIN calls : i # j => calls[i].arg # calls[j].arg

C2_Witness ==
    /\ lastOp = "stop"
    /\ nStarts >= 2
    /\ Len(calls) >= 1
    /\ \E h \in freed : h.kind = "dev"
    /\ \E h \in live : h.kind = "mgr"

\* C3: a stop() with no start() before it, or right after another stop(),
\* makes no platform call and leaves every slot and the heap unchanged.
C3_StopIsIdempotent ==
    [][(lastOp \in {"none", "stop"} /\ lastOp' = "stop") =>
          (calls' = <<>> /\ slots' = slots /\ live' = live /\ freed' = freed)]_vars

C3_Witness ==
    /\ lastOp = "stop"
    /\ prevOp = "stop"
    /\ calls = <<>>
    /\ \E h \in freed : h.kind = "win"

\* C4: every window, device, request, output target, session output and
\* container that is allocated and not released is still referenced by a
\* static slot, so a second start() leaks nothing of the first.
C4_NoLeakOnRestart ==
    \A h \in live : h.kind \in ManagedKinds => h \in SlotValues

\* C5: after a stop() returns no capture session has a repeating request
\* still active.
C5_NoPreviewAfterStop == lastOp = "stop" => repeating = {}

\* C6: a start() that finds zero cameras creates neither a device nor a
\* capture request, and the stop() that follows it releases only allocated
\* handles and leaves the six slots it manages empty.
C6_NoCameraStartThenStopSafe ==
    /\ (lastOp = "start" /\ lastStart.noCamera) =>
          /\ H("dev", nStarts) \notin live \cup freed
          /\ H("req", nStarts) \notin live \cup freed
          /\ CallFns = <<"ANativeWindow_fromSurface">> \o OpenerCut \o Assembly
    /\ StoppedAfterNoCamera =>
          /\ \A i \in DOMAIN calls : calls[i].st = "live"
          /\ ManagedSlotsEmpty

C6_Witness ==
    /\ StoppedAfterNoCamera
    /\ Len(calls) >= 1
    /\ ~lastStart.fromIdle

\* C7 as stated: after a zero-camera start() from Idle, the stop() that
\* follows makes no platform release or close call.
C7_StopIsNoOpAfterNoCamera ==
    (StoppedAfterNoCamera /\ lastStart.fromIdle) => calls = <<>>

\* C7 as amended: after a zero-camera start() from Idle no device handle
\* and no capture request exists, and the stop() that follows makes no device-close and no
\* request-free call but does release what that start() created: always the
\* container, and the output target, the session output and the window
\* when the surface gave a window.
C7_StopReleasesAssemblyAfterNoCamera ==
    (StoppedAfterNoCamera /\ lastStart.fromIdle) =>
        /\ H("dev", nStarts) \notin live \cup freed
        /\ H("req", nStarts) \notin live \cup freed
        /\ CallFns \in
              {<<"ACaptureSessionOutputContainer_free">>,
               <<"ACameraOutputTarget_free", "ACaptureSessionOutput_free",
                 "ACaptureSessionOutputContainer_free",
                 "ANativeWindow_release">>}
        /\ \A i \in DOMAIN calls : calls[i].arg.id = nStarts

C7_Witness ==
    /\ StoppedAfterNoCamera
    /\ lastStart.fromIdle
    /\ Len(calls) = 4

\* C8: stop() frees the request before the output target, the target before
\* it closes the device, the session output and the container after the
\* device, the window last, and frees no handle that an unreleased handle
\* still references.
C8_DependencyOrder ==
    lastOp = "stop" =>
        /\ Before("ACaptureRequest_free", "ACameraOutputTarget_free")
        /\ Before("ACameraOutputTarget_free", "ACameraDevice_close")
        /\ Before("ACameraDevice_close", "ACaptureSessionOutput_free")
        /\ Before("ACameraDevice_close", "ACaptureSessionOutputContainer_free")
        /\ \A i \in DOMAIN calls :
              calls[i].fn = "ANativeWindow_release" => i = Len(calls)
        /\ \A i \in DOMAIN calls : calls[i].held = {}

\* C9 as stated: between entry-point calls the system is Idle (no slot holds
\* a handle) or Previewing (every slot holds a live handle and the capture
\* is repeating).
C9_IdleOrPreviewing == AllSlotsEmpty \/ Previewing

\* C9 as amended: after a start() in which every platform call succeeded the
\* system is Previewing, and initially and after every stop() the six slots
\* stop() manages are empty.  (A start() in which a call failed can leave
\* only some slots holding handles: C9_IdleOrPreviewing is violated.)
C9_PreviewingAfterSuccessEmptyAfterStop ==
    /\ (lastOp = "start" /\ StartSucceeded) => Previewing
    /\ lastOp \in {"none", "stop"} => ManagedSlotsEmpty

C9_Witness ==
    /\ lastOp = "start"
    /\ prevOp = "start"
    /\ StartSucceeded
    /\ Previewing

\* C10 as stated: whichever platform call fails, start() goes on to perform
\* every later step of the start sequence.
C10_EveryLaterStepRuns ==
    lastOp = "start" =>
        CallFns = <<"ANativeWindow_fromSurface">> \o OpenerFull \o Assembly

\* C10 as amended: start() never aborts the session assembly: whatever
\* failed, it performs every step from the output-target creation to the
\* repeating-request submission.  Inside the camera opener a failed
\* characteristics query, device open or request creation is followed by
\* every later opener step, while a failed enumeration or an empty camera
\* list ends the opener at once.
C10_AssemblyAlwaysRuns ==
    lastOp = "start" =>
        LET cut == \E i \in DOMAIN calls :
                      /\ calls[i].fn = "ACameraManager_getCameraIdList"
                      /\ (calls[i].res = NULL \/ calls[i].num < 1)
        IN  CallFns = <<"ANativeWindow_fromSurface">>
                      \o (IF cut THEN OpenerCut ELSE OpenerFull) \o Assembly

C10_Witness ==
    /\ lastOp = "start"
    /\ Len(calls) = 16
    /\ \E i \in DOMAIN calls :
          calls[i].fn = "ACameraManager_openCamera" /\ calls[i].res = NULL
    /\ \E i \in DOMAIN calls :
          /\ calls[i].fn = "ACameraManager_getCameraCharacteristics"
          /\ calls[i].res = NULL
    /\ calls[16].fn = "ACameraCaptureSession_setRepeatingRequest"

\* C11: a platform callback only logs.  Whenever one of the four callbacks
\* fires, between any two platform calls of start() or stop(), the seven
\* slots, the platform objects and every thread's position stay as they
\* were; and whether a step of start() or stop() can be taken depends on
\* the caller's position alone, so no callback enables or blocks one.
C11_CallbacksOnlyLog ==
    /\ [][cbLog' # cbLog =>
            UNCHANGED <<slots, live, freed, refs, repeating, nStarts, pc, loc,
                        bad>>]_vars
    /\ [](/\ ENABLED StepStart(1) <=> pc[1].op = "start"
          /\ ENABLED StepStop(1) <=> pc[1].op = "stop"
          /\ ENABLED BeginStop(1) <=> pc[1] = Idle
          /\ ENABLED BeginStart(1, MaxStepStarts, Outcomes)
                <=> (pc[1] = Idle /\ nStarts < MaxStepStarts))

C11_Witness ==
    /\ cbLog = "Error on Camera"
    /\ pc[1] = [op |-> "stop", k |-> 4]
    /\ cameraDevice # NULL
    /\ cameraDevice \in freed

\* C12: a handle is released twice, or handed to a platform call after its
\* release, only in runs in which a handler was entered while another one
\* was in progress; serialized calls never do it.
C12_MisuseOnlyWhenInterleaved == bad # {} => interleaved

\* Two interleaved handlers released the same handle twice.
C12_Witness ==
    /\ interleaved
    /\ "double_release" \in bad
    /\ nStarts = 1

\* C13: the capture session start() hands to the repeating-request
\* submission never belongs to a device that has already been closed.
C13_NoSessionOfClosedDevice ==
    lastOp = "start" =>
        \A i \in DOMAIN calls :
            calls[i].fn = "ACameraCaptureSession_setRepeatingRequest"
                => calls[i].st # "freed"

\* C14: during start() the capture request given to add-target, the device
\* given to create-capture-session, the session and the request given to
\* set-repeating-request and the metadata given to the metadata free are
\* all non-empty at the moment of the call.
C14_NoEmptyHandlePassed ==
    lastOp = "start" =>
        \A i \in DOMAIN calls :
            /\ calls[i].fn \in {"ACaptureRequest_addTarget",
                                "ACameraDevice_createCaptureSession",
                                "ACameraCaptureSession_setRepeatingRequest",
                                "ACameraMetadata_free"}
                  => calls[i].st # "null"
            /\ calls[i].fn = "ACameraCaptureSession_setRepeatingRequest"
                  => calls[i].st2 # "null"

\* C15: no camera manager and no camera-id list stays allocated once the
\* camera opener has returned.
C15_ManagerAndIdListDeleted ==
    \A h \in live : h.kind \notin {"mgr", "ids"}

====
